---- MODULE Spec2Model ----
(***************************************************************************)
(* Model of the RDS exporter (src/main.go): the snapshot cache of          *)
(* RDSExporter, the scrape path Collect, the refresh cycle updateCache,    *)
(* the region workers collectRegionMetrics and the per-instance label and  *)
(* sample construction they perform.                                       *)
(***************************************************************************)
EXTENDS Integers, Sequences, FiniteSets, TLC

(***************************************************************************)
(* Bounds of the model.                                                    *)
(***************************************************************************)
\* number of Collect calls (scrapes) a behaviour contains
MaxScrapes == 2
\* number of clock ticks a behaviour contains
MaxTicks == 1
\* largest time.Duration (time.Since saturates there), scaled down
MaxDuration == 2
\* capacity of metricsChan (100 in the source), scaled down so that it fills
ChanCap == 1
\* longest tag list ListTagsForResource returns in the extractor inputs
MaxTags == 2
\* longest name, longest prefix and longest prefix list given to ContainsAndTrimPrefix
MaxNameLen == 3
MaxPrefixLen == 2
MaxPrefixes == 2

(***************************************************************************)
(* Go values.  A pointer field is a sequence of length at most one: <<>>   *)
(* is nil, <<v>> points to v.                                              *)
(***************************************************************************)
None == <<>>

Some(v) == <<v>>

Deref(p) == p[1]

\* the zero time.Time of NewRDSExporter, and the time the process starts at:
\* so long after the zero time that their difference overflows a Duration
ZeroTime == 0

StartTime == ZeroTime + MaxDuration + 1

\* variant: the difference wraps around instead of saturating
Since_Wraps(clock, t) ==
    IF clock - t > MaxDuration THEN clock - t - 2 * (MaxDuration + 1) ELSE clock - t

\* time.Since(t) at clock reading clock: Time.Sub saturates at maxDuration
Since(clock, t) == IF clock - t > MaxDuration THEN MaxDuration ELSE clock - t

(***************************************************************************)
(* Package-level label schema, main.go lines 22-47.                        *)
(***************************************************************************)
baseLabels == <<"dimension_DBInstanceIdentifier", "az", "secondary_az", "storage_type", "region", "db_instance_class", "engine">>

tags == <<"purpose", "team", "region", "environment">>

createDynLabels(base, tgs) == base \o [i \in 1..Len(tgs) |-> "tag_" \o tgs[i]]

dynLabels == createDynLabels(baseLabels, tags)

allocatedStorageDesc == [fqName |-> "aws_rds_allocated_storage", variableLabels |-> dynLabels]

maxAllocatedStorageDesc == [fqName |-> "aws_rds_max_allocated_storage", variableLabels |-> dynLabels]

iopsDesc == [fqName |-> "aws_rds_iops", variableLabels |-> dynLabels]

storageThroughputDesc == [fqName |-> "aws_rds_storage_throughput", variableLabels |-> dynLabels]

\* slices.Contains(tags, key)
SlicesContains(s, key) == \E i \in 1..Len(s) : s[i] = key

(***************************************************************************)
(* Label tuple of one instance, collectRegionMetrics lines 141-176.        *)
(***************************************************************************)
\* lines 141-152: the seven base label values
BaseLabelValues(instance, regionName) ==
    <<Deref(instance.DBInstanceIdentifier),
      Deref(instance.AvailabilityZone),
      IF instance.SecondaryAvailabilityZone # None
         THEN Deref(instance.SecondaryAvailabilityZone) ELSE "",
      Deref(instance.StorageType),
      regionName,
      Deref(instance.DBInstanceClass),
      Deref(instance.Engine)>>

\* lines 155-158: every configured key mapped to ""
EmptyTagMap == [k \in {tags[i] : i \in 1..Len(tags)} |-> ""]

\* lines 166-170: the loop over tagsOutput.TagList, in list order
RECURSIVE FillTagMap(_, _)
FillTagMap(tagMap, tagList) ==
    IF tagList = <<>> THEN tagMap
    ELSE LET tag == Head(tagList)
         IN  IF tag.Key # None /\ tag.Value # None /\ SlicesContains(tags, Deref(tag.Key))
                THEN FillTagMap([tagMap EXCEPT ![Deref(tag.Key)] = Deref(tag.Value)], Tail(tagList))
                ELSE FillTagMap(tagMap, Tail(tagList))

\* lines 160-171: the map after the tag fetch, which failed iff err
TagMapOf(tagList, err) == IF err THEN EmptyTagMap ELSE FillTagMap(EmptyTagMap, tagList)

\* variant: the slots filled in the reverse of the declaration order
TagLabelValues_Reversed(tagMap) == [i \in 1..Len(tags) |-> tagMap[tags[Len(tags) + 1 - i]]]

\* lines 174-176: one slot per configured key, in declaration order
TagLabelValues(tagMap) == [i \in 1..Len(tags) |-> tagMap[tags[i]]]

\* variant: the tag values appended as the earlier revision did, one per
\* matching tag of the list and nothing when the fetch fails
RECURSIVE MatchingTagValues(_)
MatchingTagValues(tagList) ==
    IF tagList = <<>> THEN <<>>
    ELSE LET tag == Head(tagList)
         IN  (IF tag.Key # None /\ tag.Value # None /\ SlicesContains(tags, Deref(tag.Key))
                 THEN <<Deref(tag.Value)>> ELSE <<>>) \o MatchingTagValues(Tail(tagList))

InstanceLabels_PerMatchingTag(instance, regionName, tagList, err) ==
    BaseLabelValues(instance, regionName)
    \o (IF err THEN <<>>
        ELSE IF tagList = <<>> THEN [i \in 1..Len(tags) |-> ""]
        ELSE MatchingTagValues(tagList))

InstanceLabels(instance, regionName, tagList, err) ==
    BaseLabelValues(instance, regionName) \o TagLabelValues(TagMapOf(tagList, err))

(***************************************************************************)
(* Samples of one instance, collectRegionMetrics lines 178-197.  The value *)
(* is float64(int32), which is exact.                                      *)
(***************************************************************************)
MustNewConstMetric(desc, value, lbls) ==
    [desc |-> desc.fqName, value |-> value, labels |-> lbls]

\* variant: a nil field reported as a sample of value 0
OptMetric_ZeroForNil(desc, field, lbls) ==
    <<MustNewConstMetric(desc, IF field # None THEN Deref(field) ELSE 0, lbls)>>

\* one of the four if statements: a sample iff the field is not nil
OptMetric(desc, field, lbls) ==
    IF field # None THEN <<MustNewConstMetric(desc, Deref(field), lbls)>> ELSE <<>>

InstanceMetrics(instance, lbls) ==
    OptMetric(allocatedStorageDesc, instance.AllocatedStorage, lbls)
    \o OptMetric(maxAllocatedStorageDesc, instance.MaxAllocatedStorage, lbls)
    \o OptMetric(iopsDesc, instance.Iops, lbls)
    \o OptMetric(storageThroughputDesc, instance.StorageThroughput, lbls)

(***************************************************************************)
(* The provider, a black box: the regions ListRegions returns, the pages   *)
(* DescribeDBInstances returns for a region and the tags of an instance.   *)
(* Every call can also fail.                                               *)
(***************************************************************************)
Instance(id, az2, alloc, maxAlloc, iops, thr) ==
    [DBInstanceIdentifier |-> Some(id), AvailabilityZone |-> Some("a"),
     SecondaryAvailabilityZone |-> az2, StorageType |-> Some("gp3"),
     DBInstanceClass |-> Some("db.t3.micro"), Engine |-> Some("postgres"),
     DBInstanceArn |-> Some("arn:" \o id),
     AllocatedStorage |-> alloc, MaxAllocatedStorage |-> maxAlloc,
     Iops |-> iops, StorageThroughput |-> thr]

Tag(k, v) == [Key |-> k, Value |-> v]

AllRegions == {"us-east-1", "eu-west-1"}

Arns == {"arn:db-1", "arn:db-2", "arn:db-3", "arn:db-4"}

\* an account with one single-page region each way: enough for the locking
ProviderSmall ==
    [regions |-> <<"us-east-1", "eu-west-1">>,
     pages |-> [r \in AllRegions |->
                  IF r = "us-east-1"
                  THEN << <<Instance("db-1", None, Some(100), None, None, None)>> >>
                  ELSE << <<Instance("db-3", None, None, None, None, Some(125))>> >>],
     tagList |-> [a \in Arns |->
                  IF a = "arn:db-1" THEN <<Tag(Some("team"), Some("core"))>> ELSE <<>>]]

\* an account with a two-page region, an instance without numeric fields, an
\* instance with two of them, and tags in and out of the configured set
ProviderPaged ==
    [regions |-> <<"us-east-1", "eu-west-1">>,
     pages |-> [r \in AllRegions |->
                  IF r = "us-east-1"
                  THEN << <<Instance("db-1", None, Some(100), None, Some(3000), None),
                            Instance("db-4", None, None, None, None, None)>>,
                          <<Instance("db-2", Some("b"), Some(0), None, None, None)>> >>
                  ELSE << <<Instance("db-3", None, None, None, None, Some(125))>> >>],
     tagList |-> [a \in Arns |->
                  IF a = "arn:db-1" THEN <<Tag(Some("team"), Some("core")), Tag(Some("owner"), Some("x"))>>
                  ELSE IF a = "arn:db-3" THEN <<Tag(Some("environment"), Some("prod"))>>
                  ELSE <<>>]]

\* the page a successful DescribeDBInstances returns for a marker: the first
\* page for a nil marker, and a continuation token while pages remain
DescribeDBInstancesOutput(pages, marker) ==
    LET k == IF marker = None THEN 1 ELSE Deref(marker)
    IN  [DBInstances |-> pages[k],
         Marker |-> IF k < Len(pages) THEN Some(k + 1) ELSE None]

(***************************************************************************)
(* State.                                                                  *)
(***************************************************************************)
Scrapes == 1..MaxScrapes

VARIABLES
    cache,          \* RDSExporter.cache
    lastUpdate,     \* RDSExporter.lastUpdate
    cacheTTL,       \* RDSExporter.cacheTTL
    provider,       \* the account the provider serves: regions, pages, tags
    muReaders,      \* RDSExporter.mu: the Collect calls holding the read lock
    muWriter,       \* RDSExporter.mu: the updateCache call holding the lock, 0 if none
    updateMu,       \* RDSExporter.updateMu: the updateCache call holding it, 0 if none
    now,            \* the clock
    scrape,         \* the Collect calls: position, samples sent, cacheExpired
    upd,            \* position of the updateCache goroutine each Collect call spawned
    regionOutput,   \* updateCache: regionOutput.Regions
    wg,             \* updateCache: the WaitGroup counter
    metricsChan,    \* updateCache: content of the buffered channel
    chanClosed,     \* updateCache: metricsChan is closed
    closer,         \* position of the goroutine that closes metricsChan
    newCache,       \* updateCache: newCache
    worker,         \* the collectRegionMetrics goroutines, one per region
    snapshot,       \* history: the sample list the last replace installed
    cycleStart,     \* history: cache and lastUpdate when the running cycle took updateMu
    busyAtSpawn,    \* history: a cycle was running when the goroutine was spawned
    emitted,        \* history: the samples each region worker sent in the running cycle
    requests,       \* history: the DescribeDBInstances calls of each region worker in the running cycle
    providerCalls,  \* history: number of provider calls made so far
    xin,            \* label construction alone: the instance, region and tag fetch result
    xout,           \* label construction alone: labels and samples built
    xpc,            \* label construction alone: position
    pfx             \* ContainsAndTrimPrefix: arguments, position, prefix found, results

exporterVars == <<cache, lastUpdate, cacheTTL, provider, muReaders, muWriter, updateMu, now,
                  scrape, upd, regionOutput, wg, metricsChan, chanClosed, closer,
                  newCache, worker, snapshot, cycleStart, busyAtSpawn, emitted,
                  requests, providerCalls>>

extractVars == <<xin, xout, xpc, pfx>>

vars == <<exporterVars, extractVars>>

TTLs == 1..MaxDuration

WorkerOff == [pc |-> "off", marker |-> None, output |-> None, i |-> 0,
              err |-> FALSE, labels |-> <<>>, todo |-> <<>>, hdr |-> <<>>]

ScrapeIdle == [pc |-> "idle", result |-> <<>>, age |-> 0, cacheExpired |-> FALSE]

ScrapeDone == [ScrapeIdle EXCEPT !.pc = "done"]

\* NewRDSExporter, lines 65-72, and the goroutines before the first scrape
InitExporter ==
    /\ cache = <<>>
    /\ lastUpdate = ZeroTime
    /\ muReaders = {}
    /\ muWriter = 0
    /\ updateMu = 0
    /\ now = StartTime
    /\ scrape = [s \in Scrapes |-> ScrapeIdle]
    /\ upd = [s \in Scrapes |-> "none"]
    /\ regionOutput = <<>>
    /\ wg = 0
    /\ metricsChan = <<>>
    /\ chanClosed = FALSE
    /\ closer = "off"
    /\ newCache = <<>>
    /\ worker = [r \in AllRegions |-> WorkerOff]
    /\ snapshot = <<>>
    /\ cycleStart = [cache |-> <<>>, lastUpdate |-> ZeroTime]
    /\ busyAtSpawn = [s \in Scrapes |-> FALSE]
    /\ emitted = [r \in AllRegions |-> <<>>]
    /\ requests = [r \in AllRegions |-> <<>>]
    /\ providerCalls = 0

XIdle == [instance |-> Instance("db-1", None, None, None, None, None),
          regionName |-> "us-east-1", tagList |-> <<>>, err |-> FALSE]

PfxIdle == [pc |-> "off", name |-> <<>>, prefixes |-> <<>>, prefix |-> <<>>, found |-> FALSE,
            trimmed |-> <<>>, ok |-> FALSE]

InitExtractIdle ==
    /\ xin = XIdle
    /\ xout = [labels |-> <<>>, metrics |-> <<>>]
    /\ xpc = "off"
    /\ pfx = PfxIdle

Init ==
    /\ InitExporter
    /\ cacheTTL \in TTLs
    /\ provider = ProviderSmall
    /\ InitExtractIdle

(***************************************************************************)
(* Collect, lines 81-92.                                                   *)
(***************************************************************************)
\* variant: expired only when older than the TTL
CacheExpired_Strict(age, ttl) == age > ttl

\* line 86: cacheExpired, for age = time.Since(e.lastUpdate)
CacheExpired(age, ttl) == age >= ttl

\* sync.RWMutex: RLock is granted unless a writer holds the lock or waits for it
RLockFree == muWriter = 0 /\ \A u \in Scrapes : upd[u] # "mu.Lock"

\* sync.RWMutex: Lock is granted when there is neither reader nor writer
LockFree == muWriter = 0 /\ muReaders = {}

\* line 82: e.mu.RLock()
CollectRLock(s) ==
    /\ scrape[s].pc = "idle"
    /\ \A t \in Scrapes : t < s => scrape[t].pc # "idle"
    /\ RLockFree
    /\ muReaders' = muReaders \cup {s}
    /\ scrape' = [scrape EXCEPT ![s].pc = "range"]
    /\ UNCHANGED <<cache, lastUpdate, cacheTTL, provider, muWriter, updateMu, now, upd, regionOutput,
                   wg, metricsChan, chanClosed, closer, newCache, worker, snapshot,
                   cycleStart, busyAtSpawn, emitted, requests, providerCalls, extractVars>>

\* lines 83-85: the range over e.cache, sent to the scrape's channel
CollectRange(s) ==
    /\ scrape[s].pc = "range"
    /\ scrape' = [scrape EXCEPT ![s].pc = "since", ![s].result = cache]
    /\ UNCHANGED <<cache, lastUpdate, cacheTTL, provider, muReaders, muWriter, updateMu, now, upd,
                   regionOutput, wg, metricsChan, chanClosed, closer, newCache, worker,
                   snapshot, cycleStart, busyAtSpawn, emitted, requests, providerCalls, extractVars>>

\* lines 86-87: cacheExpired and e.mu.RUnlock()
CollectSince(s) ==
    /\ scrape[s].pc = "since"
    /\ LET age == Since(now, lastUpdate)
       IN  scrape' = [scrape EXCEPT ![s].pc = "if", ![s].age = age,
                                    ![s].cacheExpired = CacheExpired(age, cacheTTL)]
    /\ muReaders' = muReaders \ {s}
    /\ UNCHANGED <<cache, lastUpdate, cacheTTL, provider, muWriter, updateMu, now, upd, regionOutput,
                   wg, metricsChan, chanClosed, closer, newCache, worker, snapshot,
                   cycleStart, busyAtSpawn, emitted, requests, providerCalls, extractVars>>

\* variant: the expired scrape calls ListRegions itself before it spawns
CollectGo_ListsRegions(s) ==
    /\ scrape[s].pc = "if"
    /\ scrape[s].cacheExpired
    /\ scrape' = [scrape EXCEPT ![s] = ScrapeDone]
    /\ upd' = [upd EXCEPT ![s] = "Lock"]
    /\ busyAtSpawn' = [busyAtSpawn EXCEPT ![s] = (updateMu # 0)]
    /\ providerCalls' = providerCalls + 1
    /\ UNCHANGED <<cache, lastUpdate, cacheTTL, provider, muReaders, muWriter, updateMu, now,
                   regionOutput, wg, metricsChan, chanClosed, closer, newCache, worker,
                   snapshot, cycleStart, emitted, requests, extractVars>>

\* lines 89-91, cacheExpired: go e.updateCache()
CollectGo(s) ==
    /\ scrape[s].pc = "if"
    /\ scrape[s].cacheExpired
    /\ scrape' = [scrape EXCEPT ![s] = ScrapeDone]
    /\ upd' = [upd EXCEPT ![s] = "Lock"]
    /\ busyAtSpawn' = [busyAtSpawn EXCEPT ![s] = (updateMu # 0)]
    /\ UNCHANGED <<cache, lastUpdate, cacheTTL, provider, muReaders, muWriter, updateMu, now,
                   regionOutput, wg, metricsChan, chanClosed, closer, newCache, worker,
                   snapshot, cycleStart, emitted, requests, providerCalls, extractVars>>

\* lines 89-92, not cacheExpired: return
CollectReturn(s) ==
    /\ scrape[s].pc = "if"
    /\ ~scrape[s].cacheExpired
    /\ scrape' = [scrape EXCEPT ![s] = ScrapeDone]
    /\ UNCHANGED <<cache, lastUpdate, cacheTTL, provider, muReaders, muWriter, updateMu, now, upd,
                   regionOutput, wg, metricsChan, chanClosed, closer, newCache, worker,
                   snapshot, cycleStart, busyAtSpawn, emitted, requests, providerCalls, extractVars>>

Collect(s) ==
    CollectRLock(s) \/ CollectRange(s) \/ CollectSince(s) \/ CollectGo(s) \/ CollectReturn(s)

(***************************************************************************)
(* updateCache, lines 94-128.                                              *)
(***************************************************************************)
\* variant: the cycle starts without waiting for updateMu
UpdLock_NoMutex(u) ==
    /\ upd[u] = "Lock"
    /\ updateMu' = u
    /\ upd' = [upd EXCEPT ![u] = "ListRegions"]
    /\ cycleStart' = [cache |-> cache, lastUpdate |-> lastUpdate]
    /\ UNCHANGED <<cache, lastUpdate, cacheTTL, provider, muReaders, muWriter, now, scrape,
                   regionOutput, wg, metricsChan, chanClosed, closer, newCache, worker,
                   snapshot, busyAtSpawn, emitted, requests, providerCalls, extractVars>>

\* variant: the cycle takes the write side of mu when it starts
UpdLock_TakesMu(u) ==
    /\ upd[u] = "Lock"
    /\ updateMu = 0
    /\ LockFree
    /\ updateMu' = u
    /\ muWriter' = u
    /\ upd' = [upd EXCEPT ![u] = "ListRegions"]
    /\ cycleStart' = [cache |-> cache, lastUpdate |-> lastUpdate]
    /\ UNCHANGED <<cache, lastUpdate, cacheTTL, provider, muReaders, now, scrape,
                   regionOutput, wg, metricsChan, chanClosed, closer, newCache, worker,
                   snapshot, busyAtSpawn, emitted, requests, providerCalls, extractVars>>

\* line 95: e.updateMu.Lock()
UpdLock(u) ==
    /\ upd[u] = "Lock"
    /\ updateMu = 0
    /\ updateMu' = u
    /\ upd' = [upd EXCEPT ![u] = "ListRegions"]
    /\ cycleStart' = [cache |-> cache, lastUpdate |-> lastUpdate]
    /\ UNCHANGED <<cache, lastUpdate, cacheTTL, provider, muReaders, muWriter, now, scrape,
                   regionOutput, wg, metricsChan, chanClosed, closer, newCache, worker,
                   snapshot, busyAtSpawn, emitted, requests, providerCalls, extractVars>>

\* variant: the failed enumeration still stamps lastUpdate
UpdListRegionsErr_Stamps(u) ==
    /\ upd[u] = "ListRegions"
    /\ upd' = [upd EXCEPT ![u] = "errReturn"]
    /\ providerCalls' = providerCalls + 1
    /\ lastUpdate' = now
    /\ UNCHANGED <<cache, cacheTTL, provider, muReaders, muWriter, updateMu, now, scrape,
                   regionOutput, wg, metricsChan, chanClosed, closer, newCache, worker,
                   snapshot, cycleStart, busyAtSpawn, emitted, requests, extractVars>>

\* lines 99-104: ListRegions fails
UpdListRegionsErr(u) ==
    /\ upd[u] = "ListRegions"
    /\ upd' = [upd EXCEPT ![u] = "errReturn"]
    /\ providerCalls' = providerCalls + 1
    /\ UNCHANGED <<cache, lastUpdate, cacheTTL, provider, muReaders, muWriter, updateMu, now, scrape,
                   regionOutput, wg, metricsChan, chanClosed, closer, newCache, worker,
                   snapshot, cycleStart, busyAtSpawn, emitted, requests, extractVars>>

WorkerStart == [WorkerOff EXCEPT !.pc = "DescribeDBInstances"]

InList(seq, x) == \E i \in 1..Len(seq) : seq[i] = x

\* lines 99-120: ListRegions succeeds; one worker per region, the closing
\* goroutine, the channel and the empty newCache
UpdListRegionsOK(u) ==
    /\ upd[u] = "ListRegions"
    /\ regionOutput' = provider.regions
    /\ wg' = Len(provider.regions)
    /\ worker' = [r \in AllRegions |-> IF InList(provider.regions, r) THEN WorkerStart ELSE WorkerOff]
    /\ metricsChan' = <<>>
    /\ chanClosed' = FALSE
    /\ closer' = "wg.Wait"
    /\ newCache' = <<>>
    /\ emitted' = [r \in AllRegions |-> <<>>]
    /\ requests' = [r \in AllRegions |-> <<>>]
    /\ upd' = [upd EXCEPT ![u] = "range"]
    /\ providerCalls' = providerCalls + 1
    /\ UNCHANGED <<cache, lastUpdate, cacheTTL, provider, muReaders, muWriter, updateMu, now, scrape,
                   snapshot, cycleStart, busyAtSpawn, extractVars>>

\* lines 116-119: wg.Wait() returns, close(metricsChan)
CloserClose ==
    /\ closer = "wg.Wait"
    /\ wg = 0
    /\ chanClosed' = TRUE
    /\ closer' = "done"
    /\ UNCHANGED <<cache, lastUpdate, cacheTTL, provider, muReaders, muWriter, updateMu, now, scrape,
                   upd, regionOutput, wg, metricsChan, newCache, worker, snapshot,
                   cycleStart, busyAtSpawn, emitted, requests, providerCalls, extractVars>>

\* variant: the merge loop starts only once the channel is closed
UpdReceive_AfterClose(u) ==
    /\ upd[u] = "range"
    /\ metricsChan # <<>>
    /\ chanClosed
    /\ newCache' = Append(newCache, Head(metricsChan))
    /\ metricsChan' = Tail(metricsChan)
    /\ UNCHANGED <<cache, lastUpdate, cacheTTL, provider, muReaders, muWriter, updateMu, now, scrape,
                   upd, regionOutput, wg, chanClosed, closer, worker, snapshot, cycleStart,
                   busyAtSpawn, emitted, requests, providerCalls, extractVars>>

\* lines 121-123: one iteration of the range over metricsChan
UpdReceive(u) ==
    /\ upd[u] = "range"
    /\ metricsChan # <<>>
    /\ newCache' = Append(newCache, Head(metricsChan))
    /\ metricsChan' = Tail(metricsChan)
    /\ UNCHANGED <<cache, lastUpdate, cacheTTL, provider, muReaders, muWriter, updateMu, now, scrape,
                   upd, regionOutput, wg, chanClosed, closer, worker, snapshot, cycleStart,
                   busyAtSpawn, emitted, requests, providerCalls, extractVars>>

\* variant: a cycle that collected nothing returns without the replace
UpdRangeEnd_SkipsEmpty(u) ==
    /\ upd[u] = "range"
    /\ metricsChan = <<>>
    /\ chanClosed
    /\ IF newCache = <<>>
       THEN muWriter' = muWriter /\ upd' = [upd EXCEPT ![u] = "return"]
       ELSE IF LockFree
            THEN muWriter' = u /\ upd' = [upd EXCEPT ![u] = "swap"]
            ELSE muWriter' = muWriter /\ upd' = [upd EXCEPT ![u] = "mu.Lock"]
    /\ UNCHANGED <<cache, lastUpdate, cacheTTL, provider, muReaders, updateMu, now, scrape,
                   regionOutput, wg, metricsChan, chanClosed, closer, newCache, worker,
                   snapshot, cycleStart, busyAtSpawn, emitted, requests, providerCalls, extractVars>>

\* lines 121-124: the range ends on the closed, drained channel; e.mu.Lock()
\* is called and is granted at once or waits for the readers
UpdRangeEnd(u) ==
    /\ upd[u] = "range"
    /\ metricsChan = <<>>
    /\ chanClosed
    /\ IF LockFree
       THEN muWriter' = u /\ upd' = [upd EXCEPT ![u] = "swap"]
       ELSE muWriter' = muWriter /\ upd' = [upd EXCEPT ![u] = "mu.Lock"]
    /\ UNCHANGED <<cache, lastUpdate, cacheTTL, provider, muReaders, updateMu, now, scrape,
                   regionOutput, wg, metricsChan, chanClosed, closer, newCache, worker,
                   snapshot, cycleStart, busyAtSpawn, emitted, requests, providerCalls, extractVars>>

\* line 124: the waiting e.mu.Lock() is granted
UpdMuLocked(u) ==
    /\ upd[u] = "mu.Lock"
    /\ LockFree
    /\ muWriter' = u
    /\ upd' = [upd EXCEPT ![u] = "swap"]
    /\ UNCHANGED <<cache, lastUpdate, cacheTTL, provider, muReaders, updateMu, now, scrape,
                   regionOutput, wg, metricsChan, chanClosed, closer, newCache, worker,
                   snapshot, cycleStart, busyAtSpawn, emitted, requests, providerCalls, extractVars>>

\* variant: a failed region makes the cycle keep the prior list
UpdSwap_AbortsOnRegionError(u) ==
    /\ upd[u] = "swap"
    /\ cache' = IF \E r \in AllRegions : worker[r].pc = "failed" THEN cache ELSE newCache
    /\ lastUpdate' = now
    /\ muWriter' = 0
    /\ snapshot' = cache'
    /\ upd' = [upd EXCEPT ![u] = "return"]
    /\ UNCHANGED <<cacheTTL, provider, muReaders, updateMu, now, scrape, regionOutput, wg,
                   metricsChan, chanClosed, closer, newCache, worker, cycleStart,
                   busyAtSpawn, emitted, requests, providerCalls, extractVars>>

\* variant: the new samples are appended to the list in place
UpdSwap_Merges(u) ==
    /\ upd[u] = "swap"
    /\ cache' = cache \o newCache
    /\ lastUpdate' = now
    /\ muWriter' = 0
    /\ snapshot' = cache'
    /\ upd' = [upd EXCEPT ![u] = "return"]
    /\ UNCHANGED <<cacheTTL, provider, muReaders, updateMu, now, scrape, regionOutput, wg,
                   metricsChan, chanClosed, closer, newCache, worker, cycleStart,
                   busyAtSpawn, emitted, requests, providerCalls, extractVars>>

\* lines 125-127: the replace, and e.mu.Unlock()
UpdSwap(u) ==
    /\ upd[u] = "swap"
    /\ cache' = newCache
    /\ lastUpdate' = now
    /\ muWriter' = 0
    /\ snapshot' = newCache
    /\ upd' = [upd EXCEPT ![u] = "return"]
    /\ UNCHANGED <<cacheTTL, provider, muReaders, updateMu, now, scrape, regionOutput, wg,
                   metricsChan, chanClosed, closer, newCache, worker, cycleStart,
                   busyAtSpawn, emitted, requests, providerCalls, extractVars>>

\* line 96, deferred: e.updateMu.Unlock(); the goroutines of the cycle are gone
UpdReturn(u) ==
    /\ upd[u] \in {"return", "errReturn"}
    /\ updateMu' = 0
    /\ upd' = [upd EXCEPT ![u] = "done"]
    /\ busyAtSpawn' = [busyAtSpawn EXCEPT ![u] = FALSE]
    /\ cycleStart' = [cache |-> <<>>, lastUpdate |-> ZeroTime]
    /\ regionOutput' = <<>>
    /\ newCache' = <<>>
    /\ metricsChan' = <<>>
    /\ chanClosed' = FALSE
    /\ closer' = "off"
    /\ worker' = [r \in AllRegions |-> WorkerOff]
    /\ emitted' = [r \in AllRegions |-> <<>>]
    /\ requests' = [r \in AllRegions |-> <<>>]
    /\ UNCHANGED <<cache, lastUpdate, cacheTTL, provider, muReaders, muWriter, now, scrape, wg,
                   snapshot, providerCalls, extractVars>>

updateCache(u) ==
    \/ UpdLock(u) \/ UpdListRegionsErr(u) \/ UpdListRegionsOK(u) \/ UpdReceive(u)
    \/ UpdRangeEnd(u) \/ UpdMuLocked(u) \/ UpdSwap(u) \/ UpdReturn(u)

(***************************************************************************)
(* collectRegionMetrics, lines 130-205, run by the goroutine of lines      *)
(* 111-114, whose deferred wg.Done() runs when the function returns.       *)
(***************************************************************************)
WorkerDone == [WorkerOff EXCEPT !.pc = "done"]

\* returned through the break of line 137
WorkerFailed == [WorkerOff EXCEPT !.pc = "failed"]

Returned(w) == w.pc \in {"done", "failed"}

\* variant: the worker returns after its first page, whatever the marker
NextInstance_OnePage(w) ==
    IF w.i < Len(w.output.DBInstances)
    THEN [w EXCEPT !.i = w.i + 1, !.pc = "ListTagsForResource", !.err = FALSE,
                   !.labels = <<>>, !.todo = <<>>, !.hdr = <<>>]
    ELSE [WorkerOff EXCEPT !.pc = "done"]

\* the loop control after the current instance is finished: the next
\* instance of the page (line 140), or lines 199-203
NextInstance(w) ==
    IF w.i < Len(w.output.DBInstances)
    THEN [w EXCEPT !.i = w.i + 1, !.pc = "ListTagsForResource", !.err = FALSE,
                   !.labels = <<>>, !.todo = <<>>, !.hdr = <<>>]
    ELSE IF w.output.Marker = None
         THEN WorkerDone
         ELSE [WorkerOff EXCEPT !.marker = w.output.Marker, !.pc = "DescribeDBInstances"]

\* the worker of region r moves to w; wg.Done() when it has returned
WorkerMoves(r, w) ==
    /\ worker' = [worker EXCEPT ![r] = w]
    /\ wg' = IF Returned(w) THEN wg - 1 ELSE wg

\* variant: a failed page is skipped and the next one requested
WDescribeErr_SkipsPage(r) ==
    /\ worker[r].pc = "DescribeDBInstances"
    /\ LET k == IF worker[r].marker = None THEN 1 ELSE Deref(worker[r].marker)
       IN  WorkerMoves(r, IF k < Len(provider.pages[r])
                          THEN [worker[r] EXCEPT !.marker = Some(k + 1)]
                          ELSE WorkerFailed)
    /\ providerCalls' = providerCalls + 1
    /\ requests' = [requests EXCEPT ![r] = Append(@, [marker |-> worker[r].marker, err |-> TRUE])]
    /\ UNCHANGED <<cache, lastUpdate, cacheTTL, provider, muReaders, muWriter, updateMu, now, scrape,
                   upd, regionOutput, metricsChan, chanClosed, closer, newCache, snapshot,
                   cycleStart, busyAtSpawn, emitted, extractVars>>

\* lines 134-138: DescribeDBInstances fails, break
WDescribeErr(r) ==
    /\ worker[r].pc = "DescribeDBInstances"
    /\ WorkerMoves(r, WorkerFailed)
    /\ providerCalls' = providerCalls + 1
    /\ requests' = [requests EXCEPT ![r] = Append(@, [marker |-> worker[r].marker, err |-> TRUE])]
    /\ UNCHANGED <<cache, lastUpdate, cacheTTL, provider, muReaders, muWriter, updateMu, now, scrape,
                   upd, regionOutput, metricsChan, chanClosed, closer, newCache, snapshot,
                   cycleStart, busyAtSpawn, emitted, extractVars>>

\* line 134: DescribeDBInstances returns a page
WDescribeOK(r) ==
    /\ worker[r].pc = "DescribeDBInstances"
    /\ LET out == DescribeDBInstancesOutput(provider.pages[r], worker[r].marker)
       IN  WorkerMoves(r, NextInstance([worker[r] EXCEPT !.output = out, !.i = 0]))
    /\ providerCalls' = providerCalls + 1
    /\ requests' = [requests EXCEPT ![r] = Append(@, [marker |-> worker[r].marker, err |-> FALSE])]
    /\ UNCHANGED <<cache, lastUpdate, cacheTTL, provider, muReaders, muWriter, updateMu, now, scrape,
                   upd, regionOutput, metricsChan, chanClosed, closer, newCache, snapshot,
                   cycleStart, busyAtSpawn, emitted, extractVars>>

\* variant: an instance whose tag fetch failed is skipped
WListTags_ErrSkipsInstance(r, err) ==
    /\ worker[r].pc = "ListTagsForResource"
    /\ LET w == worker[r]
           instance == w.output.DBInstances[w.i]
           lbls == InstanceLabels(instance, r, provider.tagList[Deref(instance.DBInstanceArn)], err)
           todo == InstanceMetrics(instance, lbls)
       IN  WorkerMoves(r, IF todo = <<>> \/ err THEN NextInstance(w)
                          ELSE [w EXCEPT !.err = err, !.labels = lbls, !.todo = todo, !.pc = "append"])
    /\ providerCalls' = providerCalls + 1
    /\ UNCHANGED <<cache, lastUpdate, cacheTTL, provider, muReaders, muWriter, updateMu, now, scrape,
                   upd, regionOutput, metricsChan, chanClosed, closer, newCache, snapshot,
                   cycleStart, busyAtSpawn, emitted, requests, extractVars>>

\* lines 141-176: the labels of the instance, with the tag fetch failing iff
\* err, and the samples lines 178-197 will append and send
WListTags(r, err) ==
    /\ worker[r].pc = "ListTagsForResource"
    /\ LET w == worker[r]
           instance == w.output.DBInstances[w.i]
           lbls == InstanceLabels(instance, r, provider.tagList[Deref(instance.DBInstanceArn)], err)
           todo == InstanceMetrics(instance, lbls)
       IN  WorkerMoves(r, IF todo = <<>> THEN NextInstance(w)
                          ELSE [w EXCEPT !.err = err, !.labels = lbls, !.todo = todo, !.pc = "append"])
    /\ providerCalls' = providerCalls + 1
    /\ UNCHANGED <<cache, lastUpdate, cacheTTL, provider, muReaders, muWriter, updateMu, now, scrape,
                   upd, regionOutput, metricsChan, chanClosed, closer, newCache, snapshot,
                   cycleStart, busyAtSpawn, emitted, requests, extractVars>>

\* lines 180, 185, 190, 195: e.cache = append(e.cache, metric) without any
\* lock: first the read of e.cache ...
WAppendLoad(r) ==
    /\ worker[r].pc = "append"
    /\ WorkerMoves(r, [worker[r] EXCEPT !.hdr = cache, !.pc = "store"])
    /\ UNCHANGED <<cache, lastUpdate, cacheTTL, provider, muReaders, muWriter, updateMu, now, scrape,
                   upd, regionOutput, metricsChan, chanClosed, closer, newCache, snapshot,
                   cycleStart, busyAtSpawn, emitted, requests, providerCalls, extractVars>>

\* ... and then the write of e.cache
WAppendStore(r) ==
    /\ worker[r].pc = "store"
    /\ cache' = Append(worker[r].hdr, Head(worker[r].todo))
    /\ WorkerMoves(r, [worker[r] EXCEPT !.hdr = <<>>, !.pc = "send"])
    /\ UNCHANGED <<lastUpdate, cacheTTL, provider, muReaders, muWriter, updateMu, now, scrape,
                   upd, regionOutput, metricsChan, chanClosed, closer, newCache, snapshot,
                   cycleStart, busyAtSpawn, emitted, requests, providerCalls, extractVars>>

\* lines 181, 186, 191, 196: ch <- metric, which waits while the buffer is full
WSend(r) ==
    /\ worker[r].pc = "send"
    /\ Len(metricsChan) < ChanCap
    /\ LET w == worker[r]
           metric == Head(w.todo)
       IN  /\ metricsChan' = Append(metricsChan, metric)
           /\ emitted' = [emitted EXCEPT ![r] = Append(@, metric)]
           /\ UNCHANGED requests
           /\ WorkerMoves(r, IF Tail(w.todo) = <<>> THEN NextInstance(w)
                             ELSE [w EXCEPT !.todo = Tail(w.todo), !.pc = "append"])
    /\ UNCHANGED <<cache, lastUpdate, cacheTTL, provider, muReaders, muWriter, updateMu, now, scrape,
                   upd, regionOutput, chanClosed, closer, newCache, snapshot,
                   cycleStart, busyAtSpawn, providerCalls, extractVars>>

collectRegionMetrics(r) ==
    \/ WDescribeErr(r) \/ WDescribeOK(r) \/ WListTags(r, TRUE) \/ WListTags(r, FALSE)
    \/ WAppendLoad(r) \/ WAppendStore(r) \/ WSend(r)

\* time passes
Tick ==
    /\ now < StartTime + MaxTicks
    /\ now' = now + 1
    /\ UNCHANGED <<cache, lastUpdate, cacheTTL, provider, muReaders, muWriter, updateMu, scrape, upd,
                   regionOutput, wg, metricsChan, chanClosed, closer, newCache, worker,
                   snapshot, cycleStart, busyAtSpawn, emitted, requests, providerCalls, extractVars>>

Next ==
    \/ \E s \in Scrapes : Collect(s)
    \/ \E u \in Scrapes : updateCache(u)
    \/ CloserClose
    \/ \E r \in AllRegions : collectRegionMetrics(r)
    \/ Tick

Spec == Init /\ [][Next]_vars

\* every value the cache TTL flag of line 209 can take, relative to the
\* largest duration: negative, zero, and up to the largest
AnyTTLs == -1..MaxDuration

InitStartup ==
    /\ InitExporter
    /\ cacheTTL \in AnyTTLs
    /\ provider = ProviderSmall
    /\ InitExtractIdle

SpecStartup == InitStartup /\ [][Next]_vars

(***************************************************************************)
(* One refresh cycle over an account with pages: the state right after the *)
(* first Collect call has spawned updateCache, and the goroutines of the   *)
(* cycle.                                                                  *)
(***************************************************************************)
InitCycle ==
    /\ InitExporter
    /\ cacheTTL = MaxDuration
    /\ provider = ProviderPaged
    /\ InitExtractIdle

\* the first Collect call and the cycle of the goroutine it spawns, with no
\* other scrape
NextCycle ==
    \/ \E s \in {1} : CollectRLock(s) \/ CollectRange(s) \/ CollectSince(s) \/ CollectGo(s)
    \/ \E u \in {1} : \/ UpdLock(u) \/ UpdListRegionsErr(u) \/ UpdListRegionsOK(u)
                      \/ UpdReceive(u) \/ UpdRangeEnd(u) \/ UpdSwap(u) \/ UpdReturn(u)
    \/ CloserClose
    \/ \E r \in AllRegions : collectRegionMetrics(r)

SpecCycle == InitCycle /\ [][NextCycle]_vars

\* Every goroutine of the cycle that can run gets to run: the Collect call,
\* updateCache, the closing goroutine and each region worker.  A provider
\* call is a step of its goroutine, so every provider call returns.
FairCycle ==
    /\ WF_vars(\E s \in {1} : CollectRLock(s) \/ CollectRange(s) \/ CollectSince(s) \/ CollectGo(s))
    /\ WF_vars(\E u \in {1} : \/ UpdLock(u) \/ UpdListRegionsErr(u) \/ UpdListRegionsOK(u)
                              \/ UpdReceive(u) \/ UpdRangeEnd(u) \/ UpdSwap(u) \/ UpdReturn(u))
    /\ WF_vars(CloserClose)
    /\ \A r \in AllRegions : WF_vars(collectRegionMetrics(r))

SpecCycleFair == SpecCycle /\ FairCycle

(***************************************************************************)
(* The label tuple and the samples of one instance, lines 141-197, over a  *)
(* range of instance records and tag fetch results.                        *)
(***************************************************************************)
XInstances ==
    {Instance("db-1", az2, alloc, maxAlloc, iops, thr) :
        az2 \in {None, Some("b")}, alloc \in {None, Some(0), Some(100)},
        maxAlloc \in {None, Some(200)}, iops \in {None, Some(3000)},
        thr \in {None, Some(125)}}

XTags == {Tag(k, v) : k \in {None, Some("team"), Some("Team"), Some("region"), Some("owner")},
                      v \in {None, Some("core"), Some("x")}}

\* the tag lists of at most MaxTags tags; a resource has one tag per key
XTagLists ==
    {l \in UNION {[1..n -> XTags] : n \in 0..MaxTags} :
        \A i, j \in 1..Len(l) : i # j => l[i].Key # l[j].Key}

InitExtract ==
    /\ InitExporter
    /\ cacheTTL = MaxDuration
    /\ provider = ProviderSmall
    /\ xin \in [instance : XInstances, regionName : {"us-east-1"},
                tagList : XTagLists, err : BOOLEAN]
    /\ xout = [labels |-> <<>>, metrics |-> <<>>]
    /\ xpc = "labels"
    /\ pfx = PfxIdle

\* lines 141-176
ExtractLabels ==
    /\ xpc = "labels"
    /\ xout' = [xout EXCEPT !.labels = InstanceLabels(xin.instance, xin.regionName, xin.tagList, xin.err)]
    /\ xpc' = "metrics"
    /\ UNCHANGED <<exporterVars, xin, pfx>>

\* lines 178-197
ExtractMetrics ==
    /\ xpc = "metrics"
    /\ xout' = [xout EXCEPT !.metrics = InstanceMetrics(xin.instance, xout.labels)]
    /\ xpc' = "done"
    /\ UNCHANGED <<exporterVars, xin, pfx>>

NextExtract == ExtractLabels \/ ExtractMetrics

SpecExtract == InitExtract /\ [][NextExtract]_vars

(***************************************************************************)
(* Properties of the scrape path and the refresh cycle.                    *)
(***************************************************************************)
InCycle == {"ListRegions", "range", "mu.Lock", "swap", "return", "errReturn"}

\* C1: a scrape that has read the cache under the read lock holds exactly the
\* sample list the last replace installed (the initial empty list before the
\* first replace): it never sees samples of the cycle in flight.
C1_ScrapeReadsInstalledSnapshot ==
    \A s \in Scrapes : scrape[s].pc = "since" => scrape[s].result = snapshot

\* C2: at most one updateCache goroutine is between taking and releasing
\* updateMu, however many were spawned.
C2_OneRefreshCycle ==
    Cardinality({u \in Scrapes : upd[u] \in InCycle}) <= 1

\* C2 witness: a cycle is collecting while another spawned goroutine exists.
C2_Witness ==
    \E u, v \in Scrapes : u # v /\ upd[u] = "range" /\ upd[v] = "Lock"

\* C3: an updateCache goroutine spawned while a refresh cycle was running
\* never runs a cycle of its own.
C3_BusyRequestIsNoop ==
    \A u \in Scrapes : busyAtSpawn[u] => upd[u] \notin InCycle

\* C4: when ListRegions has failed, the cache and lastUpdate are what they
\* were when the cycle began, no worker exists and nothing was replaced.
C4_EnumerationFailureKeepsSnapshot ==
    \A u \in Scrapes : upd[u] = "errReturn" =>
        /\ cache = cycleStart.cache
        /\ lastUpdate = cycleStart.lastUpdate
        /\ snapshot = cycleStart.cache
        /\ \A r \in AllRegions : worker[r].pc = "off"

\* C4 witness: enumeration has failed in a cycle that began with samples cached.
C4_Witness ==
    \E u \in Scrapes : upd[u] = "errReturn" /\ cache # <<>> /\ lastUpdate # ZeroTime

SamplesOfRegion(list, r) == SelectSeq(list, LAMBDA m : m.labels[5] = r)

\* C5: after the replace of a cycle in which region a failed, the cache holds
\* the samples every other region b sent, unchanged and in the order sent.
C5_RegionFailureIsolated ==
    \A u \in Scrapes : upd[u] = "return" =>
        \A a, b \in AllRegions :
            (a # b /\ worker[a].pc = "failed") => SamplesOfRegion(cache, b) = emitted[b]

\* C5 witness: a region failed on its second page after sending samples and
\* the other region sent samples too.
C5_Witness ==
    \E u \in Scrapes : \E a, b \in AllRegions :
        /\ upd[u] = "return" /\ a # b
        /\ worker[a].pc = "failed" /\ emitted[a] # <<>> /\ emitted[b] # <<>>

\* C6: a step of a Collect call makes no provider call, touches nothing of a
\* refresh cycle and at most spawns its updateCache goroutine; a call that
\* has started is never blocked, and a call that has not is blocked only
\* while the writer holds or awaits mu for the replace.
C6_ScrapeStep ==
    (\E s \in Scrapes : scrape'[s] # scrape[s]) =>
        /\ providerCalls' = providerCalls
        /\ UNCHANGED <<cache, lastUpdate, updateMu, muWriter, regionOutput, wg, metricsChan,
                       chanClosed, closer, newCache, worker>>
        /\ \A u \in Scrapes : upd'[u] # upd[u] => (upd[u] = "none" /\ upd'[u] = "Lock")

C6_ScrapeNotBlocked ==
    \A s \in Scrapes :
        /\ scrape[s].pc \in {"range", "since", "if"} => ENABLED Collect(s)
        /\ (/\ scrape[s].pc = "idle"
            /\ \A t \in Scrapes : t < s => scrape[t].pc # "idle"
            /\ \A u \in Scrapes : upd[u] \notin {"mu.Lock", "swap"}) => ENABLED Collect(s)

C6_ScrapeDoesNoProviderIO == [][C6_ScrapeStep]_vars /\ []C6_ScrapeNotBlocked

\* C6 witness: a Collect call holds the read lock while a region worker of a
\* running cycle is about to call the provider.
C6_Witness ==
    \E s \in Scrapes : \E r \in AllRegions :
        /\ scrape[s].pc = "since" /\ worker[r].pc = "ListTagsForResource"
        /\ providerCalls > 0

\* C7: a Collect call finds the cache expired iff now - lastUpdate >= cacheTTL
\* at its read, spawns updateCache iff it found it expired, and its goroutine
\* exists only once the call has sent its samples.
C7_Step ==
    \A s \in Scrapes :
        /\ (scrape[s].pc = "since" /\ scrape'[s].pc = "if") =>
              (scrape'[s].cacheExpired <=> (now - lastUpdate >= cacheTTL))
        /\ (scrape[s].pc = "if" /\ scrape'[s].pc = "done") =>
              (upd[s] = "none" /\ (upd'[s] = "Lock" <=> scrape[s].cacheExpired)
                              /\ (upd'[s] = "none" <=> ~scrape[s].cacheExpired))
        /\ scrape'[s].pc \in {"idle", "range", "since", "if"} => upd'[s] = "none"

C7_RefreshIffStale == [][C7_Step]_vars

\* C7 witness: a scrape of a refreshed cache whose age equals the TTL found it
\* expired, and a scrape of a refreshed cache younger than the TTL did not.
C7_Witness ==
    \E s \in Scrapes :
        /\ scrape[s].pc = "if" /\ lastUpdate # ZeroTime /\ cache # <<>>
        /\ scrape[s].age = cacheTTL /\ scrape[s].cacheExpired

(***************************************************************************)
(* Properties of the label tuple and the samples of one instance.          *)
(***************************************************************************)
\* C8: the label tuple of every instance, whatever its optional fields and
\* tags and whether or not the tag fetch failed, has 7 + 4 values, the number
\* of base labels plus the number of configured tag keys, which is the arity
\* of the descriptors; every sample of the instance carries that tuple.
C8_LabelArity ==
    /\ xpc \in {"metrics", "done"} =>
          /\ Len(xout.labels) = Len(baseLabels) + Len(tags)
          /\ Len(xout.labels) = 7 + 4
          /\ Len(xout.labels) = Len(allocatedStorageDesc.variableLabels)
    /\ xpc = "done" =>
          \A k \in 1..Len(xout.metrics) : Len(xout.metrics[k].labels) = Len(dynLabels)

\* C8 witness: samples were built for an instance whose tag fetch failed.
C8_Witness ==
    xpc = "done" /\ xin.err /\ xin.tagList # <<>> /\ Len(xout.metrics) >= 2

\* the samples of a list that carry a metric name
SamplesNamed(list, name) == SelectSeq(list, LAMBDA m : m.desc = name)

FieldSamplesMatch(list, name, field) ==
    IF field = None
    THEN SamplesNamed(list, name) = <<>>
    ELSE /\ Len(SamplesNamed(list, name)) = 1
         /\ SamplesNamed(list, name)[1].value = Deref(field)

Present(field) == IF field = None THEN 0 ELSE 1

\* C9: for each of the four optional numeric fields there is one sample of
\* the metric name with the field's value iff the field is present, and none
\* when it is absent; the instance has as many samples as present fields.
C9_SampleIffFieldPresent ==
    xpc = "done" =>
        /\ FieldSamplesMatch(xout.metrics, "aws_rds_allocated_storage", xin.instance.AllocatedStorage)
        /\ FieldSamplesMatch(xout.metrics, "aws_rds_max_allocated_storage", xin.instance.MaxAllocatedStorage)
        /\ FieldSamplesMatch(xout.metrics, "aws_rds_iops", xin.instance.Iops)
        /\ FieldSamplesMatch(xout.metrics, "aws_rds_storage_throughput", xin.instance.StorageThroughput)
        /\ Len(xout.metrics) = Present(xin.instance.AllocatedStorage)
                               + Present(xin.instance.MaxAllocatedStorage)
                               + Present(xin.instance.Iops)
                               + Present(xin.instance.StorageThroughput)

\* C9 witness: an instance with allocated storage 0 and IOPS present, the
\* other two fields absent, has its samples.
C9_Witness ==
    /\ xpc = "done"
    /\ xin.instance.AllocatedStorage = Some(0) /\ xin.instance.Iops # None
    /\ xin.instance.MaxAllocatedStorage = None /\ xin.instance.StorageThroughput = None

\* the value the fetched tag list gives a key: that of the tag with exactly
\* this key ("" for a tag without value), "" when there is no such tag
TagValueOf(tagList, key) ==
    IF \E j \in 1..Len(tagList) : tagList[j].Key = Some(key)
    THEN LET j == CHOOSE j \in 1..Len(tagList) : tagList[j].Key = Some(key)
         IN  IF tagList[j].Value = None THEN "" ELSE Deref(tagList[j].Value)
    ELSE ""

\* C10: after a successful tag fetch, tag slot i of the label tuple holds the
\* value of the instance's tag whose key is exactly the i-th configured key,
\* or "" when the instance has no such tag, whatever other tags the instance
\* has and in whatever order the provider lists them.
C10_TagSlots ==
    (xpc \in {"metrics", "done"} /\ ~xin.err) =>
        \A i \in 1..Len(tags) :
            xout.labels[Len(baseLabels) + i] = TagValueOf(xin.tagList, tags[i])

\* C10 witness: the provider listed a tag with a key differing only in case
\* before a configured one.
C10_Witness ==
    /\ xpc = "done" /\ ~xin.err /\ Len(xin.tagList) = 2
    /\ xin.tagList[1] = Tag(Some("Team"), Some("x"))
    /\ xin.tagList[2] = Tag(Some("team"), Some("core"))

(***************************************************************************)
(* Properties of the region workers.                                       *)
(***************************************************************************)
\* a sample without its label tuple but the instance identifier
Strip(m) == [desc |-> m.desc, value |-> m.value, id |-> m.labels[1]]

StripAll(list) == [i \in 1..Len(list) |-> Strip(list[i])]

FieldSample(name, field, id) ==
    IF field = None THEN <<>> ELSE <<[desc |-> name, value |-> Deref(field), id |-> id]>>

\* the samples an instance record calls for, in the order of the four fields
SamplesDue(instance) ==
    LET id == Deref(instance.DBInstanceIdentifier)
    IN  FieldSample("aws_rds_allocated_storage", instance.AllocatedStorage, id)
        \o FieldSample("aws_rds_max_allocated_storage", instance.MaxAllocatedStorage, id)
        \o FieldSample("aws_rds_iops", instance.Iops, id)
        \o FieldSample("aws_rds_storage_throughput", instance.StorageThroughput, id)

RECURSIVE SamplesDueOfInstances(_)
SamplesDueOfInstances(instances) ==
    IF instances = <<>> THEN <<>>
    ELSE SamplesDue(Head(instances)) \o SamplesDueOfInstances(Tail(instances))

\* the samples the first n pages call for
RECURSIVE SamplesDueOfPages(_, _)
SamplesDueOfPages(pages, n) ==
    IF n = 0 THEN <<>>
    ELSE SamplesDueOfPages(pages, n - 1) \o SamplesDueOfInstances(pages[n])

\* the markers ms of successive requests are chained: none on the first,
\* then the token the page before returned
MarkersChained(pages, ms) ==
    \A j \in 1..Len(ms) :
        IF j = 1 THEN ms[j] = None
        ELSE /\ ms[j] # None
             /\ ms[j] = DescribeDBInstancesOutput(pages, ms[j - 1]).Marker

RequestMarkers(r) == [j \in 1..Len(requests[r]) |-> requests[r][j].marker]

\* C11: when DescribeDBInstances failed on request k of a region, that request
\* is the region's last (no retry, no further page), the worker has returned,
\* the samples it sent are those of pages 1..k-1, and after the replace the
\* cache holds them.
C11_PageFailureTruncates ==
    \A r \in AllRegions : \A k \in 1..Len(requests[r]) :
        requests[r][k].err =>
            /\ k = Len(requests[r])
            /\ worker[r].pc = "failed"
            /\ MarkersChained(provider.pages[r], RequestMarkers(r))
            /\ StripAll(emitted[r]) = SamplesDueOfPages(provider.pages[r], k - 1)
            /\ (\E u \in Scrapes : upd[u] = "return") => SamplesOfRegion(cache, r) = emitted[r]

\* C11 witness: a region failed on its second page, and the cache installed
\* holds the samples of its first page.
C11_Witness ==
    \E u \in Scrapes : \E r \in AllRegions :
        /\ upd[u] = "return" /\ Len(requests[r]) = 2 /\ requests[r][2].err
        /\ SamplesOfRegion(cache, r) # <<>>

TagSlotsEmpty(lbls) ==
    /\ Len(lbls) = Len(baseLabels) + Len(tags)
    /\ \A i \in Len(baseLabels) + 1..Len(lbls) : lbls[i] = ""

\* C12: while a worker handles an instance whose tag fetch failed, the
\* samples it appends and sends carry "" in every tag slot; and a worker
\* whose page requests all succeeded has, when it returns, sent the samples
\* of every instance of every page, whichever tag fetches failed.
C12_TagFailureIsInstanceLocal ==
    \A r \in AllRegions :
        /\ worker[r].err =>
              /\ worker[r].pc \in {"append", "store", "send"}
              /\ worker[r].todo # <<>>
              /\ TagSlotsEmpty(worker[r].labels)
              /\ \A k \in 1..Len(worker[r].todo) : worker[r].todo[k].labels = worker[r].labels
        /\ worker[r].pc = "done" =>
              StripAll(emitted[r]) = SamplesDueOfPages(provider.pages[r], Len(provider.pages[r]))

\* C12 witness: the tag fetch of db-1, which has a configured tag, failed;
\* its samples were installed with empty tag slots, and so was the sample of
\* db-2 on the page after.
C12_Witness ==
    \E u \in Scrapes :
        /\ upd[u] = "return" /\ worker["us-east-1"].pc = "done"
        /\ \E i, j \in 1..Len(cache) :
              /\ cache[i].labels[1] = "db-1" /\ TagSlotsEmpty(cache[i].labels)
              /\ cache[j].labels[1] = "db-2"

(***************************************************************************)
(* ContainsAndTrimPrefix and ContainsPrefix, src/pkg/utils/logging.go      *)
(* lines 187-201.  A string is the sequence of its characters.             *)
(***************************************************************************)
Alphabet == {"a", "b"}

StringsUpTo(n) == UNION {[1..k -> Alphabet] : k \in 0..n}

\* strings.HasPrefix(s, prefix)
HasPrefix(str, prefix) ==
    Len(str) >= Len(prefix) /\ SubSeq(str, 1, Len(prefix)) = prefix

\* strings.TrimPrefix(s, prefix)
TrimPrefix(str, prefix) ==
    IF HasPrefix(str, prefix) THEN SubSeq(str, Len(prefix) + 1, Len(str)) ELSE str

\* variant: the longest matching prefix wins, the first among equals
RECURSIVE ContainsPrefix_Longest(_, _)
ContainsPrefix_Longest(name, prefixes) ==
    IF prefixes = <<>> THEN [prefix |-> <<>>, ok |-> FALSE]
    ELSE LET rest == ContainsPrefix_Longest(name, Tail(prefixes))
         IN  IF HasPrefix(name, Head(prefixes))
                /\ (~rest.ok \/ Len(rest.prefix) <= Len(Head(prefixes)))
             THEN [prefix |-> Head(prefixes), ok |-> TRUE]
             ELSE rest

\* ContainsPrefix, lines 194-201: the loop over prefixes, in list order
RECURSIVE ContainsPrefix(_, _)
ContainsPrefix(name, prefixes) ==
    IF prefixes = <<>> THEN [prefix |-> <<>>, ok |-> FALSE]
    ELSE IF HasPrefix(name, Head(prefixes))
         THEN [prefix |-> Head(prefixes), ok |-> TRUE]
         ELSE ContainsPrefix(name, Tail(prefixes))

InitPrefix ==
    /\ InitExporter
    /\ cacheTTL = MaxDuration
    /\ provider = ProviderSmall
    /\ xin = XIdle
    /\ xout = [labels |-> <<>>, metrics |-> <<>>]
    /\ xpc = "off"
    /\ \E name \in StringsUpTo(MaxNameLen) :
       \E prefixes \in UNION {[1..n -> StringsUpTo(MaxPrefixLen)] : n \in 0..MaxPrefixes} :
          pfx = [PfxIdle EXCEPT !.pc = "ContainsPrefix", !.name = name, !.prefixes = prefixes]

\* line 188: the call of ContainsPrefix
PfxContainsPrefix ==
    /\ pfx.pc = "ContainsPrefix"
    /\ LET res == ContainsPrefix(pfx.name, pfx.prefixes)
       IN  pfx' = [pfx EXCEPT !.pc = "return", !.prefix = res.prefix, !.found = res.ok]
    /\ UNCHANGED <<exporterVars, xin, xout, xpc>>

\* lines 188-191: the two returns
PfxReturn ==
    /\ pfx.pc = "return"
    /\ pfx' = [pfx EXCEPT !.pc = "done",
                          !.trimmed = IF pfx.found THEN TrimPrefix(pfx.name, pfx.prefix) ELSE pfx.name,
                          !.ok = pfx.found]
    /\ UNCHANGED <<exporterVars, xin, xout, xpc>>

NextPrefix == PfxContainsPrefix \/ PfxReturn

SpecPrefix == InitPrefix /\ [][NextPrefix]_vars

\* p is a prefix of str: str is p followed by something
IsPrefixOf(p, str) == \E k \in 0..Len(str) : SubSeq(str, 1, k) = p

MatchingPrefixes(name, prefixes) == {i \in 1..Len(prefixes) : IsPrefixOf(prefixes[i], name)}

\* C13: ContainsAndTrimPrefix returns (name without p at its front, true) for
\* the first p of prefixes, in list order, that is a prefix of name, whatever
\* matches later in the list, and (name, false) when no element of prefixes,
\* or no element at all, is a prefix of name.
C13_FirstMatchingPrefixTrimmed ==
    pfx.pc = "done" =>
        LET matching == MatchingPrefixes(pfx.name, pfx.prefixes)
        IN  IF matching = {}
            THEN pfx.trimmed = pfx.name /\ ~pfx.ok
            ELSE LET first == CHOOSE i \in matching : \A j \in matching : i <= j
                 IN  pfx.ok /\ pfx.prefixes[first] \o pfx.trimmed = pfx.name

\* C13 witness: two prefixes of the name were given, the shorter one first.
C13_Witness ==
    /\ pfx.pc = "done" /\ Len(pfx.prefixes) = 2
    /\ MatchingPrefixes(pfx.name, pfx.prefixes) = {1, 2}
    /\ Len(pfx.prefixes[1]) < Len(pfx.prefixes[2])
    /\ Len(pfx.prefixes[1]) > 0

\* number of occurrences of m in list
Count(list, m) == Cardinality({i \in 1..Len(list) : list[i] = m})

Range(list) == {list[i] : i \in 1..Len(list)}

\* the samples the workers of the cycle sent, as (region, position) pairs
EmittedOccurrences(m) ==
    UNION {{<<r, i>> : i \in {j \in 1..Len(emitted[r]) : emitted[r][j] = m}} : r \in AllRegions}

AllReturned == \A r \in AllRegions : worker[r].pc \in {"off", "done", "failed"}

\* C14: the writer asks for mu, swaps and returns only when every region
\* worker has returned, the channel is closed and drained; and after the swap
\* every sample occurs in the cache exactly as often as the workers of this
\* cycle emitted it, so nothing is lost, doubled or kept from the list before.
C14_SnapshotIsUnionOfEmitted ==
    \A u \in Scrapes :
        /\ upd[u] \in {"mu.Lock", "swap", "return"} =>
              AllReturned /\ wg = 0 /\ chanClosed /\ metricsChan = <<>>
        /\ upd[u] = "return" =>
              \A m \in Range(cache) \cup UNION {Range(emitted[r]) : r \in AllRegions} :
                  Cardinality(EmittedOccurrences(m)) = Count(cache, m)

\* C14 witness: a cycle that began with samples cached has replaced them with
\* the samples both regions emitted.
C14_Witness ==
    \E u \in Scrapes :
        /\ upd[u] = "return"
        /\ cycleStart.cache # <<>>
        /\ \A r \in AllRegions : emitted[r] # <<>>
        /\ Len(cache) = 2

\* C15: every step that changes the sample list or lastUpdate is taken by the
\* updateCache goroutine that holds the write side of mu, at its swap; no
\* region worker writes either field.
C15_CacheWrittenUnderMu ==
    [][(cache' # cache \/ lastUpdate' # lastUpdate) =>
           /\ muWriter # 0
           /\ upd[muWriter] = "swap"
           /\ worker' = worker]_vars

\* the steps of updateCache goroutine u, by the outcome of ListRegions
C16_Step(u) ==
    /\ (upd[u] = "ListRegions" /\ upd'[u] # "ListRegions") =>
           /\ upd'[u] \in {"range", "errReturn"}
           /\ UNCHANGED <<cache, lastUpdate, snapshot>>
    /\ (upd[u] = "errReturn" /\ upd'[u] # "errReturn") =>
           /\ upd'[u] = "done"
           /\ UNCHANGED <<cache, lastUpdate, snapshot>>
           /\ cache = cycleStart.cache /\ lastUpdate = cycleStart.lastUpdate
    /\ (upd[u] = "range" /\ upd'[u] # "range") => upd'[u] \in {"mu.Lock", "swap"}
    /\ (upd[u] = "mu.Lock" /\ upd'[u] # "mu.Lock") => upd'[u] = "swap"
    /\ (upd[u] = "swap" /\ upd'[u] # "swap") =>
           /\ upd'[u] = "return"
           /\ cache' = newCache /\ snapshot' = newCache /\ lastUpdate' = now
    /\ (upd[u] # "return" /\ upd'[u] = "return") => upd[u] = "swap"

\* C16: a cycle whose ListRegions failed returns with the list and lastUpdate
\* it found and nothing replaced; a cycle whose ListRegions succeeded reaches
\* its return only through the replace, which installs what was received,
\* whatever the workers did, and stamps lastUpdate; nothing else replaces;
\* and every goroutine running, such a cycle does reach the replace.
C16_ReplaceIffEnumerated ==
    /\ [][/\ \A u \in Scrapes : C16_Step(u)
          /\ (snapshot' # snapshot \/ lastUpdate' # lastUpdate) =>
                 \E u \in Scrapes : upd[u] = "swap" /\ upd'[u] = "return"]_vars
    /\ \A u \in Scrapes : (upd[u] = "range") ~> (upd[u] = "return")

\* C16 witness: every region worker failed, one of them after its first page,
\* and the replace installed the samples of that page only.
C16_Witness ==
    \E u \in Scrapes :
        /\ upd[u] = "return"
        /\ \A r \in AllRegions : worker[r].pc = "failed"
        /\ Len(requests["us-east-1"]) = 2
        /\ cache = emitted["us-east-1"] /\ cache # <<>>
        /\ lastUpdate = now

\* C17: the write side of mu is held only by the goroutine at its swap, when
\* the workers have returned and the merge is over, and never while a reader
\* holds mu; while a cycle lists regions or collects, nobody holds or awaits
\* the write side, so the next Collect call gets the read lock at once,
\* whether or not other Collect calls hold it.
C17_WriteLockOnlyForSwap ==
    /\ muWriter # 0 =>
          /\ upd[muWriter] = "swap"
          /\ AllReturned /\ chanClosed /\ metricsChan = <<>>
          /\ muReaders = {}
    /\ (\E u \in Scrapes : upd[u] \in {"ListRegions", "range"}) =>
          /\ muWriter = 0
          /\ \A u \in Scrapes : upd[u] # "mu.Lock"
          /\ \A s \in Scrapes :
                (scrape[s].pc = "idle" /\ \A t \in Scrapes : t < s => scrape[t].pc # "idle")
                    => ENABLED CollectRLock(s)

\* C17 witness: a Collect call holds the read lock while the cycle is merging
\* and a region worker is about to list instances.
C17_Witness ==
    \E u, s \in Scrapes : \E r \in AllRegions :
        /\ upd[u] = "range" /\ newCache # <<>>
        /\ worker[r].pc = "DescribeDBInstances"
        /\ s \in muReaders

\* C18: while no DescribeDBInstances call of a region has failed, its
\* requests carry no marker first and then the marker the page before
\* returned; the worker asks for another page only while pages remain, and
\* has returned exactly when it has been through the page without marker,
\* having sent the samples of every instance of every page once, in order.
C18_PagesInSequence ==
    \A r \in AllRegions :
        (\A k \in 1..Len(requests[r]) : ~requests[r][k].err) =>
            LET pages == provider.pages[r]
            IN  /\ MarkersChained(pages, RequestMarkers(r))
                /\ Len(requests[r]) <= Len(pages)
                /\ worker[r].pc = "DescribeDBInstances" => Len(requests[r]) < Len(pages)
                /\ worker[r].pc = "done" =>
                      /\ Len(requests[r]) = Len(pages)
                      /\ StripAll(emitted[r]) = SamplesDueOfPages(pages, Len(pages))
                /\ (Len(requests[r]) = Len(pages) /\ worker[r].pc # "done") =>
                      /\ worker[r].pc \in {"ListTagsForResource", "append", "store", "send"}
                      /\ worker[r].output.Marker = None

\* C18 witness: the worker of the region with two pages has returned after
\* two requests and the samples of both pages.
C18_Witness ==
    /\ worker["us-east-1"].pc = "done"
    /\ Len(provider.pages["us-east-1"]) = 2
    /\ Len(requests["us-east-1"]) = 2
    /\ requests["us-east-1"][2].marker # None
    /\ Len(emitted["us-east-1"]) = 3

NoRefreshTriggered == \A u \in Scrapes : upd[u] = "none"

\* C19: until a Collect call has spawned updateCache the cache is empty,
\* lastUpdate is the zero time and nothing of a refresh has run; a Collect
\* call that reads in that time has sent no samples, found the cache
\* expired whatever the TTL, and can only go on to spawn updateCache; and an
\* updateCache goroutine exists only for a Collect call that has returned.
C19_FirstScrapeEmptyAndStale ==
    /\ NoRefreshTriggered =>
          /\ cache = <<>> /\ snapshot = <<>> /\ lastUpdate = ZeroTime
          /\ providerCalls = 0 /\ updateMu = 0 /\ muWriter = 0
          /\ \A r \in AllRegions : worker[r].pc = "off"
          /\ \A s \in Scrapes :
                /\ scrape[s].pc \in {"since", "if"} => scrape[s].result = <<>>
                /\ scrape[s].pc = "if" =>
                      /\ scrape[s].cacheExpired
                      /\ ENABLED CollectGo(s)
                      /\ ~ENABLED CollectReturn(s)
    /\ \A u \in Scrapes : upd[u] # "none" => scrape[u].pc = "done"

\* C19 witness: the first Collect call has read the initial cache under the
\* largest TTL and is about to spawn the first updateCache.
C19_Witness ==
    \E s \in Scrapes :
        /\ NoRefreshTriggered
        /\ scrape[s].pc = "if" /\ scrape[s].cacheExpired
        /\ cacheTTL = MaxDuration

\* C20: the channel is closed only when every worker has returned, so no
\* worker sends on the closed channel, and it never holds more than its
\* capacity; and, every goroutine running and every provider call returning,
\* an updateCache goroutine that was spawned ends its cycle and releases
\* updateMu, however many samples the workers have to send.
C20_CycleTerminates ==
    /\ [](/\ chanClosed => (AllReturned /\ wg = 0)
          /\ Len(metricsChan) <= ChanCap
          /\ wg = Cardinality({r \in AllRegions : worker[r].pc \notin {"off", "done", "failed"}}))
    /\ \A u \in Scrapes : (upd[u] = "Lock") ~> (upd[u] = "done" /\ updateMu = 0)

\* C20 witness: the channel is full and both workers wait to send, so the
\* cycle has more samples than the channel holds.
C20_Witness ==
    /\ Len(metricsChan) = ChanCap
    /\ \A r \in AllRegions : worker[r].pc = "send" /\ ~ENABLED WSend(r)
    /\ ~chanClosed

\* the step of lines 125-126: list and timestamp assigned under the write lock
ReplaceStep ==
    \E u \in Scrapes :
        /\ upd[u] = "swap" /\ upd'[u] = "return" /\ muWriter = u
        /\ cache' = newCache /\ lastUpdate' = now

\* lastUpdate changes in the replace step only
StampChangesInReplaceOnly == [][lastUpdate' # lastUpdate => ReplaceStep]_vars

\* a cycle whose ListRegions failed leaves lastUpdate as it found it, so a
\* Collect call that reads the zero time afterwards finds the cache expired
AbortedCycleStaysStale ==
    \A u \in Scrapes : upd[u] = "errReturn" =>
        /\ lastUpdate = cycleStart.lastUpdate
        /\ lastUpdate = ZeroTime => CacheExpired(Since(now, lastUpdate), cacheTTL)

\* C21: the sample list and lastUpdate change only together, in the replace
\* step under the write lock, so that a Collect call reads a list with the
\* timestamp of its installation; and a cycle aborted by the failure of
\* ListRegions leaves the timestamp, hence the staleness, as it found them.
C21_ListAndStampChangeTogether ==
    /\ StampChangesInReplaceOnly
    /\ [][cache' # cache => ReplaceStep]_vars
    /\ []AbortedCycleStaysStale

(***************************************************************************)
(* The earlier revision, src/unnamed/part_000: one sync.Mutex, held by     *)
(* Collect from its first line to its return, and the refresh done inside  *)
(* Collect.  Its state is kept in the variables of the same name; muWriter *)
(* is the Collect call holding e.mu, worker[r] the locals of the loop over *)
(* the pages of region r, regionOutput the regions the loop over           *)
(* regionOutput.Regions has still to visit, scrape[s].result what the call *)
(* has sent on ch.                                                         *)
(***************************************************************************)
\* time.Hour of line 79, on the scale of MaxDuration
Hour == 1

\* lines 20-22 of part_000
oldBaseLabels == <<"dimension_DBInstanceIdentifier", "az", "secondary_az", "storage_type", "region", "name", "db_instance_class", "engine">>

oldTags == <<"billing", "purpose", "team", "region", "environment">>

oldDynLabels == createDynLabels(oldBaseLabels, oldTags)

\* lines 108-120 of part_000: the eight base label values
OldBaseLabelValues(instance, regionName) ==
    <<Deref(instance.DBInstanceIdentifier),
      Deref(instance.AvailabilityZone),
      IF instance.SecondaryAvailabilityZone # None
         THEN Deref(instance.SecondaryAvailabilityZone) ELSE "",
      Deref(instance.StorageType),
      regionName,
      Deref(instance.DBInstanceArn),
      Deref(instance.DBInstanceClass),
      Deref(instance.Engine)>>

\* lines 134-138 of part_000: one value per tag of the list whose key is configured
RECURSIVE OldMatchingTagValues(_)
OldMatchingTagValues(tagList) ==
    IF tagList = <<>> THEN <<>>
    ELSE LET tag == Head(tagList)
         IN  (IF tag.Key # None /\ tag.Value # None /\ SlicesContains(oldTags, Deref(tag.Key))
                 THEN <<Deref(tag.Value)>> ELSE <<>>) \o OldMatchingTagValues(Tail(tagList))

\* lines 108-140 of part_000: nothing appended when the fetch fails, one ""
\* per configured key when the list is empty
OldInstanceLabels(instance, regionName, tagList, err) ==
    OldBaseLabelValues(instance, regionName)
    \o (IF err THEN <<>>
        ELSE IF tagList = <<>> THEN [i \in 1..Len(oldTags) |-> ""]
        ELSE OldMatchingTagValues(tagList))

\* the clock when the process starts: any reading, one within the hour
\* after the zero time included
OldClocks == {ZeroTime, StartTime}

\* a panic of MustNewConstMetric in Collect ends the process
Crashed == \E s \in Scrapes : scrape[s].pc = "panic"

oldUnused == <<cacheTTL, provider, muReaders, updateMu, upd, wg, metricsChan, chanClosed, closer,
               newCache, snapshot, cycleStart, busyAtSpawn, emitted, requests, extractVars>>

\* NewRDSExporter, lines 60-66 of part_000
InitOld ==
    /\ cache = <<>>
    /\ lastUpdate = ZeroTime
    /\ cacheTTL = Hour
    /\ provider = ProviderSmall
    /\ muReaders = {}
    /\ muWriter = 0
    /\ updateMu = 0
    /\ now \in OldClocks
    /\ scrape = [s \in Scrapes |-> ScrapeIdle]
    /\ upd = [s \in Scrapes |-> "none"]
    /\ regionOutput = <<>>
    /\ wg = 0
    /\ metricsChan = <<>>
    /\ chanClosed = FALSE
    /\ closer = "off"
    /\ newCache = <<>>
    /\ worker = [r \in AllRegions |-> WorkerOff]
    /\ snapshot = <<>>
    /\ cycleStart = [cache |-> <<>>, lastUpdate |-> ZeroTime]
    /\ busyAtSpawn = [s \in Scrapes |-> FALSE]
    /\ emitted = [r \in AllRegions |-> <<>>]
    /\ requests = [r \in AllRegions |-> <<>>]
    /\ providerCalls = 0
    /\ InitExtractIdle

\* the call has returned, its deferred e.mu.Unlock() has run
OldReturned(s) == [ScrapeIdle EXCEPT !.pc = "done", !.result = scrape[s].result]

\* lines 76-77 of part_000: e.mu.Lock()
OldCollectLock(s) ==
    /\ ~Crashed
    /\ scrape[s].pc = "idle"
    /\ \A t \in Scrapes : t < s => scrape[t].pc # "idle"
    /\ muWriter = 0
    /\ muWriter' = s
    /\ scrape' = [scrape EXCEPT ![s].pc = "if"]
    /\ UNCHANGED <<cache, lastUpdate, now, regionOutput, worker, providerCalls, oldUnused>>

\* lines 79-84 of part_000: older than an hour, the cache is sent and the call returns
OldCollectServe(s) ==
    /\ scrape[s].pc = "if"
    /\ Since(now, lastUpdate) > Hour
    /\ scrape' = [scrape EXCEPT ![s] = [ScrapeIdle EXCEPT !.pc = "done", !.result = cache]]
    /\ muWriter' = 0
    /\ UNCHANGED <<cache, lastUpdate, now, regionOutput, worker, providerCalls, oldUnused>>

\* lines 79, 87 of part_000: otherwise the cache is emptied for the refresh
OldCollectClear(s) ==
    /\ scrape[s].pc = "if"
    /\ ~(Since(now, lastUpdate) > Hour)
    /\ cache' = <<>>
    /\ scrape' = [scrape EXCEPT ![s].pc = "ListRegions"]
    /\ UNCHANGED <<lastUpdate, muWriter, now, regionOutput, worker, providerCalls, oldUnused>>

\* lines 89-94 of part_000: ListRegions fails, return
OldListRegionsErr(s) ==
    /\ scrape[s].pc = "ListRegions"
    /\ providerCalls' = providerCalls + 1
    /\ scrape' = [scrape EXCEPT ![s] = OldReturned(s)]
    /\ muWriter' = 0
    /\ UNCHANGED <<cache, lastUpdate, now, regionOutput, worker, oldUnused>>

\* lines 89-96 of part_000: ListRegions succeeds
OldListRegionsOK(s) ==
    /\ scrape[s].pc = "ListRegions"
    /\ providerCalls' = providerCalls + 1
    /\ regionOutput' = provider.regions
    /\ scrape' = [scrape EXCEPT ![s].pc = "range"]
    /\ UNCHANGED <<cache, lastUpdate, muWriter, now, worker, oldUnused>>

\* lines 96-100 of part_000: the next region, marker nil
OldNextRegion(s) ==
    /\ scrape[s].pc = "range"
    /\ regionOutput # <<>>
    /\ worker' = [worker EXCEPT ![Head(regionOutput)] = WorkerStart]
    /\ scrape' = [scrape EXCEPT ![s].pc = "region"]
    /\ UNCHANGED <<cache, lastUpdate, muWriter, now, regionOutput, providerCalls, oldUnused>>

\* lines 169-171 of part_000: after the last region, e.lastUpdate = time.Now()
OldStamp(s) ==
    /\ scrape[s].pc = "range"
    /\ regionOutput = <<>>
    /\ lastUpdate' = now
    /\ scrape' = [scrape EXCEPT ![s] = OldReturned(s)]
    /\ muWriter' = 0
    /\ UNCHANGED <<cache, now, regionOutput, worker, providerCalls, oldUnused>>

\* lines 101-105 of part_000: DescribeDBInstances fails, break
OldDescribeErr(s) ==
    /\ scrape[s].pc = "region"
    /\ LET r == Head(regionOutput)
       IN  /\ worker[r].pc = "DescribeDBInstances"
           /\ worker' = [worker EXCEPT ![r] = WorkerFailed]
    /\ providerCalls' = providerCalls + 1
    /\ UNCHANGED <<cache, lastUpdate, muWriter, now, scrape, regionOutput, oldUnused>>

\* line 101 of part_000: DescribeDBInstances returns a page
OldDescribeOK(s) ==
    /\ scrape[s].pc = "region"
    /\ LET r == Head(regionOutput)
           out == DescribeDBInstancesOutput(provider.pages[r], worker[r].marker)
       IN  /\ worker[r].pc = "DescribeDBInstances"
           /\ worker' = [worker EXCEPT ![r] = NextInstance([worker[r] EXCEPT !.output = out, !.i = 0])]
    /\ providerCalls' = providerCalls + 1
    /\ UNCHANGED <<cache, lastUpdate, muWriter, now, scrape, regionOutput, oldUnused>>

\* lines 107-160 of part_000: the labels of the instance, with the tag fetch
\* failing iff err; the first MustNewConstMetric panics when the number of
\* label values is not that of dynLabels, and the deferred Unlock runs
OldListTags(s, err) ==
    /\ scrape[s].pc = "region"
    /\ LET r == Head(regionOutput)
           w == worker[r]
       IN  /\ w.pc = "ListTagsForResource"
           /\ LET instance == w.output.DBInstances[w.i]
                  lbls == OldInstanceLabels(instance, r, provider.tagList[Deref(instance.DBInstanceArn)], err)
                  todo == InstanceMetrics(instance, lbls)
              IN  IF todo # <<>> /\ Len(lbls) # Len(oldDynLabels)
                  THEN /\ scrape' = [scrape EXCEPT ![s].pc = "panic"]
                       /\ muWriter' = 0
                       /\ worker' = worker
                  ELSE /\ scrape' = scrape
                       /\ muWriter' = muWriter
                       /\ worker' = [worker EXCEPT ![r] =
                                        IF todo = <<>> THEN NextInstance(w)
                                        ELSE [w EXCEPT !.err = err, !.labels = lbls, !.todo = todo,
                                                       !.pc = "append"]]
    /\ providerCalls' = providerCalls + 1
    /\ UNCHANGED <<cache, lastUpdate, now, regionOutput, oldUnused>>

\* lines 141-160 of part_000: e.cache = append(e.cache, metric); ch <- metric
OldAppendSend(s) ==
    /\ scrape[s].pc = "region"
    /\ LET r == Head(regionOutput)
           w == worker[r]
       IN  /\ w.pc = "append"
           /\ cache' = Append(cache, Head(w.todo))
           /\ scrape' = [scrape EXCEPT ![s].result = Append(@, Head(w.todo))]
           /\ worker' = [worker EXCEPT ![r] = IF Tail(w.todo) = <<>> THEN NextInstance(w)
                                              ELSE [w EXCEPT !.todo = Tail(w.todo)]]
    /\ UNCHANGED <<lastUpdate, muWriter, now, regionOutput, providerCalls, oldUnused>>

\* lines 104, 163-168 of part_000: the loop over the pages has ended
OldRegionEnd(s) ==
    /\ scrape[s].pc = "region"
    /\ Returned(worker[Head(regionOutput)])
    /\ worker' = [worker EXCEPT ![Head(regionOutput)] = WorkerOff]
    /\ regionOutput' = Tail(regionOutput)
    /\ scrape' = [scrape EXCEPT ![s].pc = "range"]
    /\ UNCHANGED <<cache, lastUpdate, muWriter, now, providerCalls, oldUnused>>

OldCollect(s) ==
    \/ OldCollectLock(s) \/ OldCollectServe(s) \/ OldCollectClear(s)
    \/ OldListRegionsErr(s) \/ OldListRegionsOK(s) \/ OldNextRegion(s) \/ OldStamp(s)
    \/ OldDescribeErr(s) \/ OldDescribeOK(s) \/ OldListTags(s, TRUE) \/ OldListTags(s, FALSE)
    \/ OldAppendSend(s) \/ OldRegionEnd(s)

NextOld == (\E s \in Scrapes : OldCollect(s)) \/ Tick

SpecOld == InitOld /\ [][NextOld]_vars

\* what a Collect call of the earlier revision does once it holds e.mu
C22_Step(s) ==
    (scrape[s].pc = "if" /\ scrape'[s].pc # "if") =>
        /\ Since(now, lastUpdate) > Hour =>
              scrape'[s].pc = "ListRegions"
        /\ Since(now, lastUpdate) < Hour =>
              /\ scrape'[s].pc = "done"
              /\ scrape'[s].result = cache
              /\ UNCHANGED <<cache, lastUpdate, providerCalls>>

\* C22: in the earlier revision a Collect call that finds the cache older
\* than one hour, as it is before the first refresh, goes on to refresh it
\* from the provider, and one that finds it younger sends the cached samples
\* and returns without a provider call.
C22_RefreshWhenStale == [][\A s \in Scrapes : C22_Step(s)]_vars

\* started with the clock of any real day, more than an hour after the zero
\* time, the earlier revision never calls the provider and never refreshes
OldNeverRefreshes ==
    (now = StartTime) => [](providerCalls = 0 /\ lastUpdate = ZeroTime /\ cache = <<>>)

====
